---------------------------- MODULE Spec2Model ----------------------------
(***************************************************************************)
(* A model of src/main.py, the "Unicorn Dave" renovation task refiner: the *)
(* in-memory house database kept in st.session_state, the price lookup of  *)
(* DatabaseConn, the sidebar "Save house" handler and the "Run agent"      *)
(* handler with its event-loop fallback.                                   *)
(*                                                                         *)
(* Python strings whose characters matter (addresses, prompts, the error   *)
(* message of the lookup) are sequences of one-character strings, so that  *)
(* str.strip() and exact-match dictionary lookup are computed, not assumed.*)
(* Python numbers are records [t, v] that keep the int/float distinction.  *)
(***************************************************************************)
EXTENDS Integers, Sequences, FiniteSets, TLC

-----------------------------------------------------------------------------
(* Bounds of the model.                                                    *)

\* Most blanks put around a form address or a task description.
MaxPad == 1

-----------------------------------------------------------------------------
(* Python values.                                                          *)

None == [type |-> "NoneType"]
Str(s) == [type |-> "str", s |-> s]

\* bool(x) for the values tested by `if` / `not` in the program: None and the
\* empty string are falsy; a dataclass instance without __bool__ / __len__
\* (House) is always truthy.
Truthy(x) ==
    CASE x.type = "NoneType" -> FALSE
      [] x.type = "str"      -> x.s # <<>>
      [] OTHER               -> TRUE

\* a or b
Or(a, b) == IF Truthy(a) THEN a ELSE b

IntNum(n)   == [t |-> "int",   v |-> n]
FloatNum(n) == [t |-> "float", v |-> n]
\* float(x) and int(x) on the whole numbers of the model: the value is kept
\* (they are far below 2^53), the type changes.
float(x) == [t |-> "float", v |-> x.v]
int(x)   == [t |-> "int",   v |-> x.v]
\* Python's == on numbers compares values across int and float.
NumEq(a, b) == a.v = b.v

\* The characters str.strip() removes (those of the model's alphabet).
Whitespace == {" ", "\t", "\n"}

RECURSIVE lstrip(_)
lstrip(s) ==
    IF s # <<>> /\ Head(s) \in Whitespace THEN lstrip(Tail(s)) ELSE s

RECURSIVE rstrip(_)
rstrip(s) ==
    IF s # <<>> /\ s[Len(s)] \in Whitespace
    THEN rstrip(SubSeq(s, 1, Len(s) - 1))
    ELSE s

\* str.strip()
strip(s) == rstrip(lstrip(s))

\* Whether sequence t occurs in sequence s (Python's `t in s` on strings).
Contains(s, t) ==
    \E i \in 1..(Len(s) - Len(t) + 1) : SubSeq(s, i, i + Len(t) - 1) = t

-----------------------------------------------------------------------------
(* Domain model and DB wrapper.                                            *)

House(address, price, num_bedrooms, num_bathrooms, square_feet) ==
    [type          |-> "House",
     address       |-> address,
     price         |-> price,
     num_bedrooms  |-> num_bedrooms,
     num_bathrooms |-> num_bathrooms,
     square_feet   |-> square_feet]

MainSt == <<"1", "2", "3", " ", "M", "a", "i", "n", " ", "S", "t">>
OakAve == <<"4", "5", "6", " ", "O", "a", "k", " ", "A", "v", "e">>
PineRd == <<"7", "8", "9", " ", "P", "i", "n", "e", " ", "R", "d">>

_default_db ==
    (MainSt :> House(MainSt, IntNum(350000), IntNum(3), IntNum(2), IntNum(1500)))
 @@ (OakAve :> House(OakAve, IntNum(450000), IntNum(4), IntNum(3), IntNum(2000)))
 @@ (PineRd :> House(PineRd, IntNum(250000), IntNum(2), IntNum(1), IntNum(900)))

\* dict.get(key): the value, or None.
Get(db, key) == IF key \in DOMAIN db THEN db[key] ELSE None

\* dict[key] = value: the key is added or its value replaced.
SetItem(db, key, value) ==
    [k \in DOMAIN db \cup {key} |-> IF k = key THEN value ELSE db[k]]

HouseNotFound == <<"H", "o", "u", "s", "e", " ", "n", "o", "t", " ",
                   "f", "o", "u", "n", "d">>

Return(value) == [kind |-> "return", value |-> value]
Raise(type, message) == [kind |-> "raise", type |-> type, message |-> message]

\* A faulty variant of house_price: the truth test is made on the price, not on the
\* house, so a house priced 0 is reported as not found.
house_price_truthy_price(db, address) ==
    LET house == Get(db, address)
    IN  IF Truthy(house) /\ house.price.v # 0
        THEN Return(float(house.price))
        ELSE Raise("ValueError", HouseNotFound)

\* A faulty variant of house_price: the key is stripped before the lookup.
house_price_stripped(db, address) ==
    LET house == Get(db, strip(address))
    IN  IF Truthy(house)
        THEN Return(float(house.price))
        ELSE Raise("ValueError", HouseNotFound)

\* A faulty variant of house_price: the message names the address.
house_price_named(db, address) ==
    LET house == Get(db, address)
    IN  IF Truthy(house)
        THEN Return(float(house.price))
        ELSE Raise("ValueError", HouseNotFound \o <<":", " ">> \o address)

\* DatabaseConn.house_price
house_price(db, address) ==
    LET house == Get(db, address)
    IN  IF Truthy(house)
        THEN Return(float(house.price))
        ELSE Raise("ValueError", HouseNotFound)

\* The agent tool: it forwards to ctx.deps.house_price.
get_house_price(db, address) == house_price(db, address)

-----------------------------------------------------------------------------
(* Pydantic output schema and the (stubbed) agent call.                    *)

TaskOutput(response_text, pro_required, urgency) ==
    [type          |-> "TaskOutput",
     response_text |-> response_text,
     pro_required  |-> pro_required,
     urgency       |-> urgency]

FakeOutput(output) == [type |-> "FakeOutput", output |-> output]

\* The coroutine _run of the run handler: the agent call is commented out and
\* a fixed FakeOutput is returned.
_run ==
    FakeOutput(TaskOutput(
        "David kan je een API aanvragen en credits erop zetten en die met mij delen?",
        TRUE,
        IntNum(10)))

\* What running the coroutine on an event loop can do: return its value, or
\* raise.  asyncio.run raises RuntimeError when the thread already has a
\* running loop; the other types stand for an Exception that is not a
\* RuntimeError.
ExcTypes == {"RuntimeError", "ValueError", "OSError"}
Outcomes == {"return"} \cup ExcTypes

\* isinstance(e, RuntimeError)
IsRuntimeError(e) == e = "RuntimeError"

-----------------------------------------------------------------------------
(* The sidebar form "house_form" and its save handler.                     *)

\* default values of the widgets
DefaultPrice == 350000
DefaultBeds == 3
DefaultBaths == 2
DefaultSqft == 1200

ElmSt == <<"1", "0", "0", " ", "E", "l", "m", " ", "S", "t">>

RECURSIVE Blanks(_)
Blanks(n) == IF n = 0 THEN <<>> ELSE <<" ">> \o Blanks(n - 1)

\* Addresses typed into the form: a seed address and a new one, bare and
\* padded with blanks, tabs and newlines, and addresses made of blanks only.
AddrBases == {MainSt, ElmSt}
AddrInputs ==
    {Blanks(lr[1]) \o b \o Blanks(lr[2]) :
        b \in AddrBases,
        lr \in {x \in (0..MaxPad) \X (0..MaxPad) : x[1] + x[2] <= MaxPad}}
    \cup {<<"\t">> \o b \o <<"\n">> : b \in AddrBases}
    \cup {Blanks(n) : n \in 0..MaxPad}
    \cup {<<"\t", "\n">>}

\* st.number_input returns a float for the price (float min_value), an int
\* for the counts (int min_value); no value is below min_value = 0.
\* The prices tried are the least one and the default; the three counts are
\* tried at their least values and at their defaults.
PriceInputs == {FloatNum(0), FloatNum(DefaultPrice)}
CountInputs ==
    {<<IntNum(0), IntNum(0), IntNum(0)>>,
     <<IntNum(DefaultBeds), IntNum(DefaultBaths), IntNum(DefaultSqft)>>}

AddressRequired ==
    <<"P", "l", "e", "a", "s", "e", " ", "p", "r", "o", "v", "i", "d", "e", " ",
      "a", "n", " ", "a", "d", "d", "r", "e", "s", "s", " ", "b", "e", "f", "o",
      "r", "e", " ", "s", "a", "v", "i", "n", "g", ".">>
SavedPrefix == <<"S", "a", "v", "e", "d", ":", " ">>

\* A faulty variant of the save handler: the emptiness test is made on the raw
\* address, so an address of blanks is stored (under the empty key).
submit_raw_test(db, addr, price, beds, baths, sqft) ==
    IF ~Truthy(Str(addr))
    THEN [db |-> db, kind |-> "error", text |-> AddressRequired]
    ELSE [db   |-> SetItem(db, strip(addr),
                           House(strip(addr), float(price), int(beds),
                                 int(baths), int(sqft))),
          kind |-> "success",
          text |-> SavedPrefix \o addr]

\* A faulty variant of the save handler: the record is stored under the raw address.
submit_raw_key(db, addr, price, beds, baths, sqft) ==
    IF ~Truthy(Str(strip(addr)))
    THEN [db |-> db, kind |-> "error", text |-> AddressRequired]
    ELSE [db   |-> SetItem(db, addr,
                           House(strip(addr), float(price), int(beds),
                                 int(baths), int(sqft))),
          kind |-> "success",
          text |-> SavedPrefix \o addr]

\* A faulty variant of the save handler: an existing record is kept
\* (dict.setdefault instead of assignment).
submit_keep_first(db, addr, price, beds, baths, sqft) ==
    IF ~Truthy(Str(strip(addr)))
    THEN [db |-> db, kind |-> "error", text |-> AddressRequired]
    ELSE [db   |-> IF strip(addr) \in DOMAIN db
                   THEN db
                   ELSE SetItem(db, strip(addr),
                                House(strip(addr), float(price), int(beds),
                                      int(baths), int(sqft))),
          kind |-> "success",
          text |-> SavedPrefix \o addr]

\* `if submitted:` ... : the new house_db and the message shown.
submit(db, addr, price, beds, baths, sqft) ==
    IF ~Truthy(Str(strip(addr)))
    THEN [db |-> db, kind |-> "error", text |-> AddressRequired]
    ELSE [db   |-> SetItem(db, strip(addr),
                           House(strip(addr), float(price), int(beds),
                                 int(baths), int(sqft))),
          kind |-> "success",
          text |-> SavedPrefix \o addr]

-----------------------------------------------------------------------------
(* The main area: the "Run agent" handler.                                 *)

TaskText == <<"p", "a", "i", "n", "t">>

\* Task descriptions typed into the text area: empty, blanks only, a text,
\* and the text surrounded by white space.
PromptInputs ==
    {Blanks(n) : n \in 0..MaxPad}
    \cup {<<"\t", "\n">>, TaskText, <<" ">> \o TaskText \o <<"\n">>}

MissingKey == "Missing OPENAI_API_KEY. Set it as an environment variable or add to st.secrets to continue."
TaskRequired == "Please provide a task description."

\* A faulty variant of the guards: the task description is tested unstripped.
run_guard_raw_prompt(key, prompt) ==
    IF ~Truthy(key) THEN "missing_key"
    ELSE IF ~Truthy(Str(prompt)) THEN "empty_task"
    ELSE "invoke"

\* The guards of `if run_clicked:` in the order the handler tests them.
run_guard(key, prompt) ==
    IF ~Truthy(key) THEN "missing_key"
    ELSE IF ~Truthy(Str(strip(prompt))) THEN "empty_task"
    ELSE "invoke"

\* A faulty variant of the try statement: the fallback is taken on every exception.
after_first_retry_all(outcome) ==
    IF outcome = "return" THEN "else"
    ELSE "fallback"

\* The clause of the try statement taken after asyncio.run(_run()): the else
\* clause when it returned, `except RuntimeError` (the fallback on a new event
\* loop) or `except Exception` (st.exception) when it raised.
after_first(outcome) ==
    IF outcome = "return" THEN "else"
    ELSE IF IsRuntimeError(outcome) THEN "fallback"
    ELSE "except"

\* The else clause: st.markdown of the text, and the two st.metric values.
render(res) ==
    [kind      |-> "result",
     markdown  |-> res.output.response_text,
     pro_label |-> IF res.output.pro_required THEN "Yes" ELSE "No",
     urgency   |-> int(res.output.urgency)]

Nothing == [kind |-> "none"]

-----------------------------------------------------------------------------
(* State.                                                                  *)

VARIABLES
    openai_key,   \* the credential read at startup: None or a string
    house_db,     \* st.session_state.house_db: address -> House
    form,         \* the form submitted in the current script run and the
                  \* message the save handler showed for it
    shell,        \* where the presentation shell is
    user_prompt,  \* the task description read by the current run action
    run_clicked,  \* whether the current script run is a run action
    calls,        \* invocations of _run() started by the current run action
    inflight,     \* invocations of _run() started and not yet ended
    raised,       \* the exceptions the invocations of this run action raised
    result,       \* the handler's variable `result`: None or a FakeOutput
    main,         \* what the run handler rendered in the main area
    lookup,       \* the last call of the tool get_house_price and its outcome
    latest,       \* history: address -> the price of the most recent accepted
                  \* save for it (the seed price if there was none)
    overwrote     \* history: the last accepted save replaced a different
                  \* record that an earlier save had stored under its key

vars == <<openai_key, house_db, form, shell, user_prompt, run_clicked, calls,
          inflight, raised, result, main, lookup, latest, overwrote>>

run_vars == <<shell, user_prompt, run_clicked, calls, inflight, raised, result, main>>

\* Values of the environment variable and of the secret store.
EnvInputs == {None, Str(<<>>), Str(<<"s", "k">>)}
SecretInputs == {None, Str(<<"s", "k">>)}

\* Addresses the tool is called with: stored ones, one that is added later,
\* and ones that differ from a stored key by case, by white space, or are a
\* part of it.
LookupInputs ==
    {MainSt, ElmSt,
     <<"1", "2", "3", " ", "m", "a", "i", "n", " ", "s", "t">>,
     <<" ">> \o MainSt,
     <<"1", "2", "3", " ", "M", "a", "i", "n">>}

Init ==
    /\ \E env \in EnvInputs, secret \in SecretInputs : openai_key = Or(env, secret)
    /\ house_db = _default_db
    /\ form = Nothing
    /\ shell = "CollectingInput"
    /\ user_prompt = <<>>
    /\ run_clicked = FALSE
    /\ calls = 0
    /\ inflight = 0
    /\ raised = <<>>
    /\ result = None
    /\ main = Nothing
    /\ lookup = Nothing
    /\ latest = [a \in DOMAIN _default_db |-> _default_db[a].price]
    /\ overwrote = FALSE

\* A script run is not started while the previous one is inside asyncio.
Interactive == shell # "Invoking"

\* The script run of a "Save house" submission: the save handler runs, the
\* button of the main area is not clicked.
house_form(addr, price, beds, baths, sqft) ==
    LET done == submit(house_db, addr, price, beds, baths, sqft)
        key  == strip(addr)
    IN  /\ Interactive
        /\ house_db' = done.db
        /\ form' = IF done.kind = "success"
                   THEN [kind |-> "success", addr |-> addr, text |-> done.text,
                         price |-> price, beds |-> beds, baths |-> baths,
                         sqft |-> sqft]
                   ELSE [kind |-> "error", addr |-> addr, text |-> done.text]
        /\ latest' = IF done.kind = "success" THEN SetItem(latest, key, price)
                     ELSE latest
        /\ overwrote' = /\ done.kind = "success"
                        /\ key \in DOMAIN house_db
                        /\ key \notin DOMAIN _default_db
                        /\ house_db[key] # done.db[key]
        /\ shell' = "CollectingInput"
        /\ user_prompt' = <<>>
        /\ run_clicked' = FALSE
        /\ calls' = 0
        /\ inflight' = 0
        /\ raised' = <<>>
        /\ result' = None
        /\ main' = Nothing
        /\ UNCHANGED <<openai_key, lookup>>

\* The script run of a "Run agent" click, up to the call of asyncio.run.
run_agent(prompt) ==
    LET guard == run_guard(openai_key, prompt)
    IN  /\ Interactive
        /\ run_clicked' = TRUE
        /\ user_prompt' = prompt
        /\ form' = Nothing
        /\ overwrote' = FALSE
        /\ raised' = <<>>
        /\ result' = None
        /\ IF guard = "invoke"
           THEN /\ shell' = "Invoking"
                /\ calls' = 1
                /\ inflight' = 1
                /\ main' = Nothing
           ELSE /\ shell' = "CollectingInput"
                /\ calls' = 0
                /\ inflight' = 0
                /\ main' = [kind |-> "error",
                            text |-> IF guard = "missing_key" THEN MissingKey
                                     ELSE TaskRequired]
        /\ UNCHANGED <<openai_key, house_db, lookup, latest>>

\* asyncio.run(_run()) ends, and the try statement goes on from there.
first_attempt(outcome) ==
    LET clause == after_first(outcome)
    IN  /\ shell = "Invoking"
        /\ calls = 1
        /\ raised' = IF outcome = "return" THEN raised ELSE Append(raised, outcome)
        /\ CASE clause = "else" ->
                  /\ result' = _run
                  /\ main' = render(_run)
                  /\ shell' = "DisplayingResult"
                  /\ calls' = calls
                  /\ inflight' = inflight - 1
             [] clause = "fallback" ->
                  \* loop.run_until_complete(_run()) is entered
                  /\ calls' = calls + 1
                  /\ inflight' = inflight - 1 + 1
                  /\ UNCHANGED <<result, main, shell>>
             [] OTHER ->
                  /\ main' = [kind |-> "exception", type |-> outcome]
                  /\ shell' = "DisplayingError"
                  /\ calls' = calls
                  /\ inflight' = inflight - 1
                  /\ UNCHANGED result
        /\ UNCHANGED <<openai_key, house_db, form, user_prompt, run_clicked,
                       lookup, latest, overwrote>>

\* loop.run_until_complete(_run()) ends inside `except RuntimeError`: the loop
\* is closed; a result is assigned and the try statement is left without its
\* else clause, an exception leaves the handler.
fallback_attempt(outcome) ==
    /\ shell = "Invoking"
    /\ calls = 2
    /\ inflight' = inflight - 1
    /\ IF outcome = "return"
       THEN /\ result' = _run
            /\ shell' = "CollectingInput"
            /\ raised' = raised
       ELSE /\ result' = result
            /\ shell' = "Uncaught"
            /\ raised' = Append(raised, outcome)
    /\ UNCHANGED <<openai_key, house_db, form, user_prompt, run_clicked, calls,
                   main, lookup, latest, overwrote>>

\* A call of the tool get_house_price(ctx, address).
tool_call(address) ==
    /\ lookup' = [kind |-> "call", address |-> address,
                  outcome |-> get_house_price(house_db, address)]
    /\ UNCHANGED <<openai_key, house_db, form, latest, overwrote>>
    /\ UNCHANGED run_vars

Next ==
    \/ \E addr \in AddrInputs, price \in PriceInputs, counts \in CountInputs :
           house_form(addr, price, counts[1], counts[2], counts[3])
    \/ \E prompt \in PromptInputs : run_agent(prompt)
    \/ \E outcome \in Outcomes : first_attempt(outcome)
    \/ \E outcome \in Outcomes : fallback_attempt(outcome)
    \/ \E address \in LookupInputs : tool_call(address)

Spec == Init /\ [][Next]_vars

-----------------------------------------------------------------------------
(* Properties.                                                             *)

\* s is empty or made of white space only (stated without strip).
IsBlank(s) == \A i \in 1..Len(s) : s[i] \in Whitespace

Keys == DOMAIN house_db

\* The last step was a call of the tool (only a call changes `lookup`).
ToolCalled == lookup' # lookup

\* C1: for every address that is a key of the store, house_price returns, as
\* a float, exactly the price of the most recent accepted save for it (the
\* seed price if it was never saved), a price of 0 included; and every call
\* of the tool reads the store as it is at the call, so it reports the price
\* saved last even when an earlier call reported another outcome.
C1_LatestPrice ==
    /\ [](\A A \in Keys :
            LET r == house_price(house_db, A)
            IN  /\ r.kind = "return"
                /\ r.value.t = "float"
                /\ NumEq(r.value, latest[A]))
    /\ [][(ToolCalled /\ lookup'.address \in Keys)
            => lookup'.outcome = Return(float(latest[lookup'.address]))]_vars

\* A house saved twice, the second time for 0, and then looked up.
C1_Witness ==
    /\ overwrote
    /\ form.kind = "success"
    /\ strip(form.addr) = ElmSt
    /\ form.price = FloatNum(0)
    /\ lookup.kind = "call"
    /\ lookup.address = ElmSt
    /\ lookup.outcome = Return(FloatNum(0))

\* C2: for every address that is not an exact-match key of the store (one
\* that differs from a key by case or by surrounding white space, or is a
\* part of a key, included), house_price raises ValueError instead of
\* returning a price, and a tool call that fails leaves the store as it was.
C2_NotFound ==
    /\ [](\A A \in (LookupInputs \cup AddrInputs) \ Keys :
            LET r == house_price(house_db, A)
            IN  r.kind = "raise" /\ r.type = "ValueError")
    /\ [][(ToolCalled /\ lookup'.address \notin Keys)
            => /\ lookup'.outcome.kind = "raise"
               /\ house_db' = house_db]_vars

\* A failed lookup of a stored address with a blank in front of it.
C2_Witness ==
    /\ lookup.kind = "call"
    /\ lookup.address = <<" ">> \o MainSt
    /\ lookup.outcome.kind = "raise"
    /\ MainSt \in Keys

\* C3 as claimed: the error of a failed lookup carries the address that was
\* looked up.
C3_CarriesAddress ==
    (lookup.kind = "call" /\ lookup.outcome.kind = "raise")
        => Contains(lookup.outcome.message, lookup.address)

\* C3 as amended: the error of a failed lookup is a ValueError with the fixed
\* message "House not found"; it is the same for every address and does not
\* carry the address.
C3_FixedMessage ==
    /\ \A A \in LookupInputs \ Keys :
          house_price(house_db, A) = Raise("ValueError", HouseNotFound)
    /\ (lookup.kind = "call" /\ lookup.outcome.kind = "raise")
          => /\ lookup.outcome = Raise("ValueError", HouseNotFound)
             /\ (lookup.address # <<>> =>
                    ~Contains(lookup.outcome.message, lookup.address))

C3_Witness ==
    /\ lookup.kind = "call"
    /\ lookup.outcome.kind = "raise"
    /\ lookup.address = ElmSt

\* The House the form values stand for.
FormHouse(f) ==
    House(strip(f.addr), float(f.price), int(f.beds), int(f.baths), int(f.sqft))

\* C4: an accepted save for address A leaves exactly one record for A, which
\* holds the values of that save alone (so of the second of two saves); the
\* store grows by one key when A is new and not at all when A was already
\* stored, the records of the other addresses stay as they were, and no two
\* records of the store ever have the same address.
C4_LastWriteWins ==
    /\ [](\A j, k \in Keys : house_db[j].address = house_db[k].address => j = k)
    /\ [][form'.kind = "success" =>
            LET A == strip(form'.addr)
            IN  /\ DOMAIN house_db' = Keys \cup {A}
                /\ house_db'[A] = FormHouse(form')
                /\ \A k \in Keys \ {A} : house_db'[k] = house_db[k]
                /\ Cardinality(DOMAIN house_db') <= Cardinality(Keys) + 1
                /\ A \in Keys => Cardinality(DOMAIN house_db') = Cardinality(Keys)
         ]_vars

\* The second save changed the record an earlier save had stored.
C4_Witness ==
    /\ overwrote
    /\ form.kind = "success"
    /\ house_db[strip(form.addr)] = FormHouse(form)
    /\ Cardinality(Keys) = Cardinality(DOMAIN _default_db) + 1

\* C5: a save whose address is empty or white space only is rejected with the
\* validation message and the store is left as it was: the same keys, the
\* same number of them, the same record under each.
C5_BlankRejected ==
    [][(form'.kind \in {"error", "success"} /\ IsBlank(form'.addr))
         => /\ form'.kind = "error"
            /\ form'.text = AddressRequired
            /\ house_db' = house_db
            /\ Cardinality(DOMAIN house_db') = Cardinality(Keys)
      ]_vars

\* A save of white space only is rejected after another house was added.
C5_Witness ==
    /\ form.kind = "error"
    /\ form.addr = <<"\t", "\n">>
    /\ ElmSt \in Keys

\* C6: a run action whose task description is blank after stripping, or whose
\* credential is missing, starts no invocation, shows a validation message
\* and leaves the shell in Collecting Input.
C6_Guards ==
    (run_clicked /\ (~Truthy(openai_key) \/ IsBlank(user_prompt)))
        => /\ calls = 0
           /\ inflight = 0
           /\ result = None
           /\ raised = <<>>
           /\ shell = "CollectingInput"
           /\ main.kind = "error"
           /\ main.text = IF ~Truthy(openai_key) THEN MissingKey ELSE TaskRequired

\* The credential is there and the task description a single blank.
C6_Witness ==
    /\ run_clicked
    /\ Truthy(openai_key)
    /\ user_prompt = <<" ">>
    /\ main.kind = "error"

\* C7 as claimed: when the run handler has ended on an exception of the
\* invocation, the shell is in Displaying Error and shows that exception; no
\* exception leaves the handler.
C7_ExceptionDisplayed ==
    (shell # "Invoking" /\ calls > 0 /\ Len(raised) = calls)
        => /\ shell = "DisplayingError"
           /\ main = [kind |-> "exception", type |-> raised[Len(raised)]]

\* C8 as claimed: when the run handler has ended with a result of the
\* invocation, the shell is in Displaying Result and shows the result's text,
\* Yes or No for pro_required, and the urgency as a number.
C8_ResultRendered ==
    (shell # "Invoking" /\ result # None)
        => /\ shell = "DisplayingResult"
           /\ main.kind = "result"
           /\ main.markdown = result.output.response_text
           /\ main.pro_label = (IF result.output.pro_required THEN "Yes" ELSE "No")
           /\ NumEq(main.urgency, result.output.urgency)

\* C9 as claimed: a run action starts at most one invocation, and at most one
\* is in flight.
C9_AtMostOnce == calls <= 1 /\ inflight <= 1

\* C9 as amended: a run action starts at most two invocations, the second one
\* only after the first raised RuntimeError (the fallback on a new event
\* loop) and never after another exception or after the fallback itself; at
\* most one invocation is in flight.
C9_AtMostTwice ==
    /\ inflight <= 1
    /\ calls <= 2
    /\ calls = 2 => (raised # <<>> /\ IsRuntimeError(raised[1]))
    /\ (raised # <<>> /\ ~IsRuntimeError(raised[1])) => calls = 1
    /\ Len(raised) <= calls

\* The fallback invocation is in flight.
C9_Witness ==
    /\ calls = 2
    /\ inflight = 1
    /\ raised = <<"RuntimeError">>

\* C10: every key of the store is non-empty, has no white space at either end
\* and is the address of the record stored under it; after an accepted save
\* of form address A the lookup of strip(A) returns the saved price, and the
\* lookup of A itself fails when A is not its own stripped form.
C10_KeysNormalised ==
    /\ \A k \in Keys :
          /\ k # <<>>
          /\ Head(k) \notin Whitespace
          /\ k[Len(k)] \notin Whitespace
          /\ house_db[k].address = k
    /\ form.kind = "success" =>
          /\ house_price(house_db, strip(form.addr)) = Return(float(form.price))
          /\ form.addr # strip(form.addr) =>
                house_price(house_db, form.addr).kind = "raise"

\* A new address was saved with a tab in front and a newline behind.
C10_Witness ==
    /\ form.kind = "success"
    /\ form.addr = <<"\t">> \o ElmSt \o <<"\n">>
    /\ ElmSt \in Keys

=============================================================================
